---- MODULE Spec2Model ----
(***************************************************************************)
(* nostd-vault: a Solana program with two instructions, Deposit and        *)
(* Withdraw (src/src/lib.rs, src/src/instructions.rs).                     *)
(*                                                                         *)
(* The state is the ledger the host hands to the program: for every        *)
(* address its lamports, its owning-program tag and its data length.  One  *)
(* action, Call, is one invocation of process_instruction on an account    *)
(* list and an instruction payload; it runs the whole handler, the two     *)
(* system-program CPIs included, and commits the result only when the      *)
(* handler returns Ok (the runtime discards the writes of a failed         *)
(* instruction).                                                           *)
(***************************************************************************)
EXTENDS Integers, Sequences, FiniteSets, TLC

VARIABLES lamports, ownedBy, dataLen, created, last

vars == <<lamports, ownedBy, dataLen, created, last>>

(***************************************************************************)
(* Bounds of the model.                                                    *)
(***************************************************************************)
\* largest value of the low byte of a Deposit payload
MaxAmount == 2
\* what owner o1 holds in an initial ledger
MaxOwnerFunds == 5
\* largest surplus over the reserve a pre-existing account holds initially
MaxSurplus == 1

(***************************************************************************)
(* Program constants.                                                      *)
(***************************************************************************)
\* size_of::<u64>()
U64Size == 8
\* const DISCRIMINATOR: usize = 8 in check_vault_existence
DISCRIMINATOR == 8
\* Deposit::DISCRIMINATOR and Withdraw::DISCRIMINATOR, the opcode bytes
DepositDiscriminator == 0
WithdrawDiscriminator == 1

\* crate::ID, the program's own identity, and the system program
ID == "nostd-vault"
SystemProgram == "system"

(***************************************************************************)
(* Addresses.  o1, o2 and k are key-pair addresses (they can sign a        *)
(* transaction); the others are program-derived (off curve, nobody can     *)
(* sign for them except the program through invoke_signed).                *)
(***************************************************************************)
Owners == {"o1", "o2"}
Keypairs == Owners \cup {"k"}
Addresses == Keypairs \cup {"pda1", "pda2", "spda1"}
NoAddress == "none"

\* find_program_address(&[b"no-std-vault", owner.key()], &crate::ID): the
\* canonical vault address of an owner (the bump is part of the address).
derive_vault_pda(owner) ==
    CASE owner = "o1" -> "pda1"
      [] owner = "o2" -> "pda2"
      [] OTHER -> NoAddress

\* The address the signer seeds [b"vault", owner.key(), bump] of
\* check_vault_existence stand for.  The first seed is "vault", not
\* "no-std-vault", so this is the hash of another byte string than the one
\* derive_vault_pda hashes: another address, or no address at all when the
\* hash lands on the curve (both happen, one owner of each kind).
SignerSeedsAddress(owner) ==
    CASE owner = "o1" -> "spda1"
      [] OTHER -> NoAddress

\* Rent::get()?.minimum_balance(data_len): the host's reserve schedule,
\* increasing in the data length (scaled: one unit per 8 bytes of data).
RentFloor == 1
minimum_balance(data_len) == RentFloor + data_len \div U64Size

(***************************************************************************)
(* Results.  A handler step yields [err, st]: err is "Ok" or the error,   *)
(* st the ledger as written so far.                                        *)
(***************************************************************************)
ProgramErrors ==
    {"InvalidInstructionData", "InvalidAccountData", "InvalidAccountOwner",
     "NotEnoughAccountKeys", "InsufficientFunds"}
\* errors a system-program CPI returns, propagated by `?`
CpiErrors ==
    {"InvalidSeeds", "MissingRequiredSignature", "AccountAlreadyInUse",
     "ResultWithNegativeLamports", "InvalidArgument", "ArithmeticOverflow"}

Ok(st) == [err |-> "Ok", st |-> st]
Err(e, st) == [err |-> e, st |-> st]

\* u64::MAX (the largest integer of the model stands for it)
U64Max == 2147483647
None == -1
\* u64::checked_sub and u64::checked_add
checked_sub(a, b) == IF b > a THEN None ELSE a - b
checked_add(a, b) == IF a + b > U64Max THEN None ELSE a + b

(***************************************************************************)
(* Instruction payload: a sequence of bytes.                               *)
(***************************************************************************)
RECURSIVE from_le_bytes(_)
\* u64::from_le_bytes: the first byte is the least significant
from_le_bytes(bytes) ==
    IF bytes = <<>> THEN 0
    ELSE Head(bytes) + 256 * from_le_bytes(Tail(bytes))

\* parse_amount without `if amount == 0`
parse_amount_accepts_zero(data) ==
    IF Len(data) # U64Size
    THEN [err |-> "InvalidInstructionData", amount |-> 0]
    ELSE [err |-> "Ok", amount |-> from_le_bytes(data)]

\* parse_amount: [err, amount]
parse_amount(data) ==
    IF Len(data) # U64Size
    THEN [err |-> "InvalidInstructionData", amount |-> 0]
    ELSE LET amount == from_le_bytes(data)
         IN  IF amount = 0
             THEN [err |-> "InvalidAccountData", amount |-> 0]
             ELSE [err |-> "Ok", amount |-> amount]

(***************************************************************************)
(* The system program's instructions, as the two CPIs use them.  st is the *)
(* ledger [lamports, ownedBy, dataLen]; signers is the set of addresses    *)
(* that sign the inner instruction (transaction signers and the address of *)
(* the signer seeds).                                                      *)
(***************************************************************************)
\* pinocchio_system Transfer { from, to, lamports }.invoke()
SystemTransfer(st, from, to, amount, signers) ==
    IF from \notin signers THEN Err("MissingRequiredSignature", st)
    ELSE IF st.ownedBy[from] # SystemProgram \/ st.dataLen[from] # 0
    THEN Err("InvalidArgument", st)
    ELSE IF checked_sub(st.lamports[from], amount) = None
    THEN Err("ResultWithNegativeLamports", st)
    ELSE LET debited == [st.lamports EXCEPT ![from] = @ - amount]
         IN  IF checked_add(debited[to], amount) = None
             THEN Err("ArithmeticOverflow", st)
             ELSE Ok([st EXCEPT !.lamports = [debited EXCEPT ![to] = @ + amount]])

\* pinocchio_system CreateAccount { from, to, lamports, space, owner }
\* .invoke_signed(..)
CreateAccount(st, from, to, lamps, space, owner, signers) ==
    IF from \notin signers \/ to \notin signers
    THEN Err("MissingRequiredSignature", st)
    ELSE IF st.lamports[to] > 0 \/ st.dataLen[to] # 0
            \/ st.ownedBy[to] # SystemProgram
    THEN Err("AccountAlreadyInUse", st)
    ELSE LET allocated ==
                 [st EXCEPT !.dataLen[to] = space, !.ownedBy[to] = owner]
             moved == SystemTransfer(allocated, from, to, lamps, signers)
         IN  IF moved.err = "Ok" THEN moved ELSE Err(moved.err, st)

(***************************************************************************)
(* The program.  An account of the account list is [key, is_signer]; its   *)
(* lamports, owner tag and data length are read from the ledger st.        *)
(***************************************************************************)
\* the accounts of the instruction that signed the transaction
TxSigners(accounts) ==
    {accounts[i].key : i \in {j \in DOMAIN accounts : accounts[j].is_signer}}

\* check_vault_existence without `if !owner.is_signer()`
check_vault_existence_unsigned(st, accounts, owner, vault) ==
    IF st.lamports[vault.key] = 0
    THEN LET signer == SignerSeedsAddress(owner.key)
             data_len == DISCRIMINATOR + U64Size
             required_lamports == minimum_balance(data_len)
         IN  IF signer = NoAddress THEN Err("InvalidSeeds", st)
             ELSE CreateAccount(st, owner.key, vault.key, required_lamports,
                                data_len, ID, TxSigners(accounts) \cup {signer})
    ELSE IF st.ownedBy[vault.key] # ID THEN Err("InvalidAccountOwner", st)
    ELSE Ok(st)

\* check_vault_existence with the reserve of the discriminator alone
check_vault_existence_short_reserve(st, accounts, owner, vault) ==
    IF ~owner.is_signer THEN Err("InvalidAccountOwner", st)
    ELSE IF st.lamports[vault.key] = 0
    THEN LET signer == SignerSeedsAddress(owner.key)
             data_len == DISCRIMINATOR + U64Size
             required_lamports == minimum_balance(DISCRIMINATOR)
         IN  IF signer = NoAddress THEN Err("InvalidSeeds", st)
             ELSE CreateAccount(st, owner.key, vault.key, required_lamports,
                                data_len, ID, TxSigners(accounts) \cup {signer})
    ELSE IF st.ownedBy[vault.key] # ID THEN Err("InvalidAccountOwner", st)
    ELSE Ok(st)

\* check_vault_existence without `if !vault.is_owned_by(&crate::ID)`
check_vault_existence_any_owner(st, accounts, owner, vault) ==
    IF ~owner.is_signer THEN Err("InvalidAccountOwner", st)
    ELSE IF st.lamports[vault.key] = 0
    THEN LET signer == SignerSeedsAddress(owner.key)
             data_len == DISCRIMINATOR + U64Size
             required_lamports == minimum_balance(data_len)
         IN  IF signer = NoAddress THEN Err("InvalidSeeds", st)
             ELSE CreateAccount(st, owner.key, vault.key, required_lamports,
                                data_len, ID, TxSigners(accounts) \cup {signer})
    ELSE Ok(st)

\* check_vault_existence(owner, vault)
check_vault_existence(st, accounts, owner, vault) ==
    IF ~owner.is_signer THEN Err("InvalidAccountOwner", st)
    ELSE IF st.lamports[vault.key] = 0
    THEN LET signer == SignerSeedsAddress(owner.key)
             data_len == DISCRIMINATOR + U64Size
             required_lamports == minimum_balance(data_len)
         IN  IF signer = NoAddress THEN Err("InvalidSeeds", st)
             ELSE CreateAccount(st, owner.key, vault.key, required_lamports,
                                data_len, ID, TxSigners(accounts) \cup {signer})
    ELSE IF st.ownedBy[vault.key] # ID THEN Err("InvalidAccountOwner", st)
    ELSE Ok(st)

\* Deposit::process without the transfer
DepositProcess_no_transfer(st, accounts, owner, vault, amount) ==
    check_vault_existence(st, accounts, owner, vault)

\* Deposit::process
DepositProcess(st, accounts, owner, vault, amount) ==
    LET checked == check_vault_existence(st, accounts, owner, vault)
    IN  IF checked.err # "Ok" THEN checked
        ELSE SystemTransfer(checked.st, owner.key, vault.key, amount,
                            TxSigners(accounts))

\* Deposit::try_from that parses the payload before it counts the accounts
DepositTryFrom_parse_first(st, data, accounts) ==
    LET parsed == parse_amount(data)
    IN  IF parsed.err # "Ok" THEN Err(parsed.err, st)
        ELSE IF Len(accounts) < 2 THEN Err("NotEnoughAccountKeys", st)
        ELSE DepositProcess(st, accounts, accounts[1], accounts[2],
                            parsed.amount)

\* Deposit::try_from((data, accounts)), then process
DepositTryFrom(st, data, accounts) ==
    IF Len(accounts) < 2 THEN Err("NotEnoughAccountKeys", st)
    ELSE LET owner == accounts[1]
             vault == accounts[2]
             parsed == parse_amount(data)
         IN  IF parsed.err # "Ok" THEN Err(parsed.err, st)
             ELSE DepositProcess(st, accounts, owner, vault, parsed.amount)

\* the account whose lamports the second borrow of Withdraw::process
\* writes: `let mut owner_lamports = vault.try_borrow_mut_lamports()?`
CreditedAccount(owner, vault) == vault

\* the second write a copy of the first: checked_sub again
WithdrawLamports_sub_twice(st, owner, vault, amount) ==
    LET debited == checked_sub(st.lamports[vault.key], amount)
    IN  IF debited = None THEN Err("InsufficientFunds", st)
        ELSE LET st1 == [st EXCEPT !.lamports[vault.key] = debited]
                 cell == CreditedAccount(owner, vault).key
                 credited == checked_sub(st1.lamports[cell], amount)
             IN  IF credited = None THEN Err("InsufficientFunds", st1)
                 ELSE Ok([st1 EXCEPT !.lamports[cell] = credited])

\* the lamports writes of Withdraw::process: the checked debit of the vault,
\* then the checked credit
WithdrawLamports(st, owner, vault, amount) ==
    LET debited == checked_sub(st.lamports[vault.key], amount)
    IN  IF debited = None THEN Err("InsufficientFunds", st)
        ELSE LET st1 == [st EXCEPT !.lamports[vault.key] = debited]
                 cell == CreditedAccount(owner, vault).key
                 credited == checked_add(st1.lamports[cell], amount)
             IN  IF credited = None THEN Err("InsufficientFunds", st1)
                 ELSE Ok([st1 EXCEPT !.lamports[cell] = credited])

\* Withdraw::process without `if vault.key() != &expected_vault_pda`
WithdrawProcess_any_vault(st, owner, vault) ==
    IF ~owner.is_signer THEN Err("InvalidAccountOwner", st)
    ELSE IF st.ownedBy[vault.key] # ID THEN Err("InvalidAccountOwner", st)
    ELSE LET data_len == st.dataLen[vault.key]
             minimum_bal == minimum_balance(data_len)
             current_balance == st.lamports[vault.key]
         IN  IF current_balance <= minimum_bal
             THEN Err("InsufficientFunds", st)
             ELSE WithdrawLamports(st, owner, vault,
                                   current_balance - minimum_bal)

\* Withdraw::process with `current_balance < minimum_bal`
WithdrawProcess_lt(st, owner, vault) ==
    IF ~owner.is_signer THEN Err("InvalidAccountOwner", st)
    ELSE IF st.ownedBy[vault.key] # ID THEN Err("InvalidAccountOwner", st)
    ELSE IF vault.key # derive_vault_pda(owner.key)
    THEN Err("InvalidAccountData", st)
    ELSE LET data_len == st.dataLen[vault.key]
             minimum_bal == minimum_balance(data_len)
             current_balance == st.lamports[vault.key]
         IN  IF current_balance < minimum_bal
             THEN Err("InsufficientFunds", st)
             ELSE WithdrawLamports(st, owner, vault,
                                   current_balance - minimum_bal)

\* Withdraw::process
WithdrawProcess(st, owner, vault) ==
    IF ~owner.is_signer THEN Err("InvalidAccountOwner", st)
    ELSE IF st.ownedBy[vault.key] # ID THEN Err("InvalidAccountOwner", st)
    ELSE IF vault.key # derive_vault_pda(owner.key)
    THEN Err("InvalidAccountData", st)
    ELSE LET data_len == st.dataLen[vault.key]
             minimum_bal == minimum_balance(data_len)
             current_balance == st.lamports[vault.key]
         IN  IF current_balance <= minimum_bal
             THEN Err("InsufficientFunds", st)
             ELSE WithdrawLamports(st, owner, vault,
                                   current_balance - minimum_bal)

\* Withdraw::try_from with the error of another check
WithdrawTryFrom_wrong_error(st, accounts) ==
    IF Len(accounts) < 2 THEN Err("InvalidInstructionData", st)
    ELSE WithdrawProcess(st, accounts[1], accounts[2])

\* Withdraw::try_from(accounts), then process
WithdrawTryFrom(st, accounts) ==
    IF Len(accounts) < 2 THEN Err("NotEnoughAccountKeys", st)
    ELSE WithdrawProcess(st, accounts[1], accounts[2])

\* process_instruction whose Withdraw arm matches any opcode but 0
process_instruction_default_withdraw(st, accounts, data) ==
    IF data = <<>> THEN Err("InvalidInstructionData", st)
    ELSE IF Head(data) = DepositDiscriminator
    THEN DepositTryFrom(st, Tail(data), accounts)
    ELSE WithdrawTryFrom(st, accounts)

\* process_instruction(_program_id, accounts, data)
process_instruction(st, accounts, data) ==
    IF data = <<>> THEN Err("InvalidInstructionData", st)
    ELSE IF Head(data) = DepositDiscriminator
    THEN DepositTryFrom(st, Tail(data), accounts)
    ELSE IF Head(data) = WithdrawDiscriminator
    THEN WithdrawTryFrom(st, accounts)
    ELSE Err("InvalidInstructionData", st)

(***************************************************************************)
(* Inputs of a call.                                                       *)
(***************************************************************************)
\* n bytes, the least significant one b, the others 0
Pad(b, n) == [i \in 1..n |-> IF i = 1 THEN b ELSE 0]

\* Deposit payloads: 8 bytes encoding 0..MaxAmount, a shorter and a longer
\* one
Payloads ==
    {Pad(b, U64Size) : b \in 0..MaxAmount}
        \cup {Pad(0, U64Size - 1), Pad(1, U64Size + 1)}

\* The list is empty, one account or two.
\* account[0] is an owner, signing or not; account[1] is the same account
\* again or an address that is no owner's.  Only a key-pair address can have
\* signed the transaction; an address listed twice is one account, with one
\* signer flag.
OwnerRefs == [key : Owners, is_signer : BOOLEAN]
VaultRefs ==
    {r \in [key : Addresses, is_signer : BOOLEAN] :
        r.is_signer => r.key \in Keypairs}
AccountLists ==
    {<<>>} \cup {<<o>> : o \in OwnerRefs}
        \cup {l \in {<<o, v>> : o \in OwnerRefs, v \in VaultRefs} :
                /\ l[1].key = l[2].key => l[1].is_signer = l[2].is_signer
                /\ l[2].key \in Owners => l[1].key = l[2].key}

(***************************************************************************)
(* Initial ledgers: what the host may hand to the first call.  The owners  *)
(* are funded system accounts.  Any other address is absent (no lamports)  *)
(* or holds the reserve of its data length plus a surplus: the ledger lets *)
(* no account below its reserve exist.  A vault may be on the ledger       *)
(* already, at an owner's canonical address, tagged as owned by the        *)
(* program; an address may hold lamports under the system program; a       *)
(* key-pair address may hold an account assigned to the program.  Both     *)
(* accounts of a call are writable, as the instruction declares them.      *)
(***************************************************************************)
Absent == [lamports |-> 0, ownedBy |-> SystemProgram, dataLen |-> 0]
Held(tag, len, surplus) ==
    {[lamports |-> minimum_balance(len) + s, ownedBy |-> tag, dataLen |-> len] :
        s \in surplus}
VaultLen == DISCRIMINATOR + U64Size

InitialAccounts(a) ==
    CASE a = "o1" -> {[lamports |-> MaxOwnerFunds, ownedBy |-> SystemProgram,
                       dataLen |-> 0]}
      [] a = "o2" -> Held(SystemProgram, 0, {0})
      [] a = "pda1" -> {Absent} \cup Held(ID, VaultLen, 0..MaxSurplus)
                           \cup Held(SystemProgram, 0, {0})
      [] a = "pda2" -> {Absent} \cup Held(ID, VaultLen, {MaxSurplus})
      [] a = "k" -> {Absent} \cup Held(ID, 0, {0})
      [] OTHER -> {Absent}

Ledger == [lamports |-> lamports, ownedBy |-> ownedBy, dataLen |-> dataLen]

NoCall == [op |-> "none", accounts |-> <<>>, data |-> <<>>, err |-> "none",
           pre |-> Ledger]

Init ==
    /\ \E acc \in [Addresses -> UNION {InitialAccounts(a) : a \in Addresses}] :
          /\ \A a \in Addresses : acc[a] \in InitialAccounts(a)
          /\ lamports = [a \in Addresses |-> acc[a].lamports]
          /\ ownedBy = [a \in Addresses |-> acc[a].ownedBy]
          /\ dataLen = [a \in Addresses |-> acc[a].dataLen]
    /\ created = {}
    /\ last = NoCall

(***************************************************************************)
(* One call of the entrypoint.  The ledger takes the handler's writes when *)
(* it returns Ok and keeps its state when it returns an error.  `last` is  *)
(* the call and its result until the host takes the next instruction;      *)
(* `created` collects <<owner, address>> for every account a call of that  *)
(* owner has created.                                                      *)
(***************************************************************************)
\* a host that keeps the writes of a call that returned an error
Invoke_no_rollback(op, accounts, data) ==
    LET r == process_instruction(Ledger, accounts, data)
        post == r.st
    IN  /\ lamports' = post.lamports
        /\ ownedBy' = post.ownedBy
        /\ dataLen' = post.dataLen
        /\ created' = created \cup
               {<<accounts[1].key, a>> :
                   a \in {b \in Addresses :
                             ownedBy[b] # ID /\ post.ownedBy[b] = ID}}
        /\ last' = [op |-> op, accounts |-> accounts, data |-> data,
                    err |-> r.err, pre |-> Ledger]

Invoke(op, accounts, data) ==
    LET r == process_instruction(Ledger, accounts, data)
        post == IF r.err = "Ok" THEN r.st ELSE Ledger
    IN  /\ lamports' = post.lamports
        /\ ownedBy' = post.ownedBy
        /\ dataLen' = post.dataLen
        /\ created' = created \cup
               {<<accounts[1].key, a>> :
                   a \in {b \in Addresses :
                             ownedBy[b] # ID /\ post.ownedBy[b] = ID}}
        /\ last' = [op |-> op, accounts |-> accounts, data |-> data,
                    err |-> r.err, pre |-> Ledger]

\* opcode 0
Deposit ==
    /\ last.op = "none"
    /\ \E accounts \in AccountLists, payload \in Payloads :
          Invoke("Deposit", accounts, <<DepositDiscriminator>> \o payload)

\* opcode 1, with or without bytes after it
Withdraw ==
    /\ last.op = "none"
    /\ \E accounts \in AccountLists, rest \in {<<>>, <<1>>} :
          Invoke("Withdraw", accounts, <<WithdrawDiscriminator>> \o rest)

\* no opcode, or an opcode that is neither
Unrouted ==
    /\ last.op = "none"
    /\ \E accounts \in AccountLists, data \in {<<>>, <<2>>} :
          Invoke("Unrouted", accounts, data)

\* opcode 1 again, on the same accounts, right after a Withdraw that
\* returned Ok
WithdrawAgain ==
    /\ last.op = "Withdraw" /\ last.err = "Ok"
    /\ Invoke("WithdrawAgain", last.accounts, <<WithdrawDiscriminator>>)

\* the call is over: the host goes on to the next instruction
NextInstruction ==
    /\ last.op # "none"
    /\ last' = NoCall
    /\ UNCHANGED <<lamports, ownedBy, dataLen, created>>

Next == Deposit \/ Withdraw \/ WithdrawAgain \/ Unrouted \/ NextInstruction

Spec == Init /\ [][Next]_vars

TypeOK ==
    /\ lamports \in [Addresses -> Nat]
    /\ ownedBy \in [Addresses -> {ID, SystemProgram}]
    /\ dataLen \in [Addresses -> {0, VaultLen}]
    /\ created \subseteq Owners \X Addresses
    /\ last.err \in ProgramErrors \cup CpiErrors \cup {"Ok", "none"}

(***************************************************************************)
(* The last call, as the properties read it.                               *)
(***************************************************************************)
HasTwo == Len(last.accounts) >= 2
LOwner == last.accounts[1]
LVault == last.accounts[2]
Pre == last.pre
\* the amount a Deposit payload decodes to
LAmount == from_le_bytes(Tail(last.data))
\* the reserve of the supplied vault account, for its data length
PreReserve == minimum_balance(Pre.dataLen[LVault.key])
\* the reserve of a vault that Deposit creates
NewReserve == minimum_balance(VaultLen)
Unchanged == Ledger = Pre
\* the three checks of Withdraw pass
WithdrawChecksPass ==
    /\ last.op = "Withdraw" /\ HasTwo
    /\ LOwner.is_signer
    /\ Pre.ownedBy[LVault.key] = ID
    /\ LVault.key = derive_vault_pda(LOwner.key)
DepositOk == last.op = "Deposit" /\ last.err = "Ok"

(***************************************************************************)
(* Properties.                                                             *)
(***************************************************************************)

\* C1: a Withdraw on a vault that passes the three checks and holds more
\* than its reserve succeeds and leaves the vault exactly its reserve.
C1_WithdrawLeavesReserve ==
    (WithdrawChecksPass /\ Pre.lamports[LVault.key] > PreReserve)
        => /\ last.err = "Ok"
           /\ lamports[LVault.key] = PreReserve

\* C2: a successful Withdraw adds the withdrawable amount (the vault's
\* balance before the call minus its reserve) to the Owner's balance.
C2_WithdrawCreditsOwner ==
    (last.op = "Withdraw" /\ last.err = "Ok")
        => lamports[LOwner.key] =
               Pre.lamports[LOwner.key]
                   + (Pre.lamports[LVault.key] - PreReserve)

\* C3: a successful Deposit of a leaves the vault account with reserve + a
\* when it held nothing before the call, and with its previous balance + a
\* when it did; a is not 0.
C3_DepositVaultBalance ==
    DepositOk
        => /\ LAmount # 0
           /\ lamports[LVault.key] =
                  IF Pre.lamports[LVault.key] = 0
                  THEN NewReserve + LAmount
                  ELSE Pre.lamports[LVault.key] + LAmount

C3_Witness ==
    /\ DepositOk
    /\ Pre.lamports[LVault.key] = 0
    /\ lamports[LVault.key] = NewReserve + LAmount

\* C4 as stated: a successful Deposit of a takes exactly a from the Owner,
\* also when the call creates the vault.
C4_Original ==
    DepositOk => lamports[LOwner.key] = Pre.lamports[LOwner.key] - LAmount

\* C4 as amended: a successful Deposit of a takes a from the Owner when the
\* vault account held a balance, and reserve + a when the call creates it
\* (the Owner funds the reserve); a Deposit on an absent vault by an Owner
\* who holds less than reserve + a does not succeed.
C4_DepositOwnerBalance ==
    /\ DepositOk
           => lamports[LOwner.key] =
                  IF Pre.lamports[LVault.key] = 0
                  THEN Pre.lamports[LOwner.key] - NewReserve - LAmount
                  ELSE Pre.lamports[LOwner.key] - LAmount
    /\ (/\ last.op = "Deposit" /\ HasTwo
        /\ Pre.lamports[LVault.key] = 0
        /\ Pre.lamports[LOwner.key] < NewReserve + LAmount)
           => last.err # "Ok"

C4_Witness ==
    /\ DepositOk
    /\ Pre.lamports[LVault.key] = 0
    /\ lamports[LVault.key] = NewReserve + LAmount
    /\ lamports[LOwner.key] = Pre.lamports[LOwner.key] - NewReserve - LAmount

\* C5: no account owned by the program, created by a Deposit or found on
\* the ledger, ever holds less than the reserve of its data length.
C5_VaultKeepsReserve ==
    \A a \in Addresses :
        ownedBy[a] = ID => lamports[a] >= minimum_balance(dataLen[a])

C5_Witness ==
    /\ last.op = "Withdraw" /\ last.err = "Ok"
    /\ created # {}
    /\ lamports[LVault.key] >= PreReserve

\* C6: a Deposit or a Withdraw whose Owner has not signed, its other inputs
\* valid (two accounts; for Deposit 8 bytes that decode to a nonzero
\* amount), fails with InvalidAccountOwner and changes nothing.
C6_UnsignedOwnerRejected ==
    (/\ last.op \in {"Deposit", "Withdraw"} /\ HasTwo
     /\ ~LOwner.is_signer
     /\ last.op = "Deposit" => parse_amount(Tail(last.data)).err = "Ok")
        => last.err = "InvalidAccountOwner" /\ Unchanged

C6_Witness ==
    /\ last.op = "Deposit" /\ HasTwo
    /\ ~LOwner.is_signer
    /\ parse_amount(Tail(last.data)).err = "Ok"
    /\ Pre.ownedBy[LVault.key] = ID
    /\ Pre.lamports[LOwner.key] >= LAmount
    /\ last.err = "InvalidAccountOwner"

\* C7 as stated: a Withdraw on a vault account whose address is not
\* derive(owner) fails with InvalidAccountData and changes nothing.
C7_Original ==
    (last.op = "Withdraw" /\ HasTwo
        /\ LVault.key # derive_vault_pda(LOwner.key))
        => last.err = "InvalidAccountData" /\ Unchanged

\* C7 as amended: such a Withdraw fails and changes nothing; the error is
\* InvalidAccountData when the Owner signed and the account is tagged as
\* owned by this program, and InvalidAccountOwner otherwise.
C7_WrongVaultRejected ==
    (last.op = "Withdraw" /\ HasTwo
        /\ LVault.key # derive_vault_pda(LOwner.key))
        => /\ Unchanged
           /\ last.err =
                  IF LOwner.is_signer /\ Pre.ownedBy[LVault.key] = ID
                  THEN "InvalidAccountData"
                  ELSE "InvalidAccountOwner"

\* another owner's vault, holding more than its reserve
C7_Witness ==
    /\ last.op = "Withdraw" /\ HasTwo
    /\ LOwner.is_signer
    /\ LVault.key \in {derive_vault_pda(o) : o \in Owners \ {LOwner.key}}
    /\ Pre.ownedBy[LVault.key] = ID
    /\ Pre.lamports[LVault.key] > PreReserve
    /\ last.err = "InvalidAccountData"

\* C8: a Withdraw on a vault that passes the three checks and holds exactly
\* its reserve fails with InsufficientFunds; vault and Owner balance stay.
C8_NothingWithdrawable ==
    (WithdrawChecksPass /\ Pre.lamports[LVault.key] = PreReserve)
        => /\ last.err = "InsufficientFunds"
           /\ lamports[LVault.key] = Pre.lamports[LVault.key]
           /\ lamports[LOwner.key] = Pre.lamports[LOwner.key]

C8_Witness ==
    /\ WithdrawChecksPass
    /\ Pre.lamports[LVault.key] = PreReserve
    /\ last.err = "InsufficientFunds"

\* an 8-byte Deposit payload that decodes to 0
ZeroDeposit ==
    /\ last.op = "Deposit"
    /\ Len(Tail(last.data)) = U64Size
    /\ LAmount = 0

\* C9 as stated: a Deposit whose amount decodes to 0 fails with
\* InvalidAccountData and changes nothing.
C9_Original == ZeroDeposit => last.err = "InvalidAccountData" /\ Unchanged

\* C9 as amended: a Deposit whose amount decodes to 0 fails and changes
\* nothing; the error is InvalidAccountData when at least two accounts are
\* supplied and NotEnoughAccountKeys when fewer are.
C9_ZeroAmountRejected ==
    ZeroDeposit
        => /\ Unchanged
           /\ last.err = IF HasTwo THEN "InvalidAccountData"
                         ELSE "NotEnoughAccountKeys"

\* a signed zero Deposit on an existing vault of the program
C9_Witness ==
    /\ ZeroDeposit /\ HasTwo
    /\ LOwner.is_signer
    /\ Pre.ownedBy[LVault.key] = ID
    /\ last.err = "InvalidAccountData"

\* a Deposit payload of another length than 8
BadLengthDeposit == last.op = "Deposit" /\ Len(Tail(last.data)) # U64Size

\* C10 as stated: a Deposit whose payload is not 8 bytes long fails with
\* InvalidInstructionData.
C10_Original == BadLengthDeposit => last.err = "InvalidInstructionData"

\* C10 as amended: a Deposit whose payload is not 8 bytes long fails with
\* InvalidInstructionData when at least two accounts are supplied and with
\* NotEnoughAccountKeys when fewer are.
C10_BadLengthRejected ==
    BadLengthDeposit
        => last.err = IF HasTwo THEN "InvalidInstructionData"
                      ELSE "NotEnoughAccountKeys"

\* a signed Deposit of 9 bytes on an existing vault of the program
C10_Witness ==
    /\ BadLengthDeposit /\ HasTwo
    /\ LOwner.is_signer
    /\ Len(Tail(last.data)) > U64Size
    /\ Pre.ownedBy[LVault.key] = ID
    /\ last.err = "InvalidInstructionData"

\* C11: opcode 0 is answered by Deposit and opcode 1 by Withdraw; a call
\* with no opcode or with another opcode fails with InvalidInstructionData
\* and changes nothing, whatever the account list.
C11_Dispatch ==
    /\ (last.op # "none"
            /\ (last.data = <<>>
                   \/ Head(last.data) \notin
                          {DepositDiscriminator, WithdrawDiscriminator}))
           => last.err = "InvalidInstructionData" /\ Unchanged
    /\ (last.data # <<>> /\ Head(last.data) = DepositDiscriminator)
           => last.err = DepositTryFrom(Pre, Tail(last.data), last.accounts).err
    /\ (last.data # <<>> /\ Head(last.data) = WithdrawDiscriminator)
           => last.err = WithdrawTryFrom(Pre, last.accounts).err

\* opcode 2 on accounts that a Withdraw would accept
C11_Witness ==
    /\ last.op = "Unrouted" /\ last.data # <<>> /\ HasTwo
    /\ LOwner.is_signer
    /\ Pre.ownedBy[LVault.key] = ID
    /\ LVault.key = derive_vault_pda(LOwner.key)
    /\ Pre.lamports[LVault.key] > PreReserve
    /\ last.err = "InvalidInstructionData"

\* C12: a Deposit or a Withdraw with fewer than two accounts fails with
\* NotEnoughAccountKeys and changes nothing.
C12_TooFewAccounts ==
    (last.op \in {"Deposit", "Withdraw"} /\ Len(last.accounts) < 2)
        => last.err = "NotEnoughAccountKeys" /\ Unchanged

C12_Witness ==
    /\ last.op = "Withdraw"
    /\ Len(last.accounts) = 1
    /\ last.accounts[1].is_signer
    /\ last.err = "NotEnoughAccountKeys"

CreatedAddresses == {p[2] : p \in created}

\* C14: an address is created at most once, a created vault stays owned by
\* the program with a balance above 0, and a later successful Deposit on it
\* moves the amount and nothing else (the already-exists path).
C14_CreatedOnce ==
    \A a \in CreatedAddresses :
        /\ Cardinality({p \in created : p[2] = a}) = 1
        /\ lamports[a] > 0
        /\ ownedBy[a] = ID
        /\ dataLen[a] = VaultLen
        /\ (DepositOk /\ LVault.key = a /\ Pre.lamports[a] > 0)
               => /\ lamports[a] = Pre.lamports[a] + LAmount
                  /\ lamports[LOwner.key] = Pre.lamports[LOwner.key] - LAmount

\* a successful Deposit on a vault that an earlier Deposit created
C14_Witness ==
    /\ DepositOk
    /\ LVault.key \in CreatedAddresses
    /\ Pre.ownedBy[LVault.key] = ID
    /\ Pre.lamports[LVault.key] > 0

C16_CreatedVaultAccepted ==
    (/\ last.op = "Withdraw" /\ HasTwo
     /\ LOwner.is_signer
     /\ <<LOwner.key, LVault.key>> \in created)
        => last.err # "InvalidAccountData"

\* C17: a Withdraw that directly follows a successful Withdraw of the same
\* owner on the same vault fails with InsufficientFunds.
C17_SecondWithdrawFails ==
    last.op = "WithdrawAgain" => last.err = "InsufficientFunds"

RECURSIVE SumOver(_, _)
\* the sum of the balances l over the addresses in S
SumOver(l, S) ==
    IF S = {} THEN 0
    ELSE LET a == CHOOSE x \in S : TRUE
         IN  l[a] + SumOver(l, S \ {a})

\* C18: a successful Deposit or Withdraw leaves the sum of the Owner's and
\* the Vault's balance, and the sum of all balances, as it was.
C18_ValueConserved ==
    last.err = "Ok"
        => /\ lamports[LOwner.key] + lamports[LVault.key] =
                  Pre.lamports[LOwner.key] + Pre.lamports[LVault.key]
           /\ SumOver(lamports, Addresses) = SumOver(Pre.lamports, Addresses)

\* a successful Withdraw on a vault that held more than its reserve
C18_Witness ==
    /\ last.op = "Withdraw" /\ last.err = "Ok"
    /\ Pre.lamports[LVault.key] > PreReserve
    /\ lamports[LOwner.key] + lamports[LVault.key] =
           Pre.lamports[LOwner.key] + Pre.lamports[LVault.key]

\* C19: a successful Deposit signed by an owner credits the vault at that
\* owner's canonical address and no other account.
C19_DepositOnlyOwnVault ==
    DepositOk => LVault.key = derive_vault_pda(LOwner.key)

====
